---- MODULE Spec2Model ----
(***************************************************************************)
(* Model of rust-sloth's command-line glue: src/inputs.rs (option          *)
(* matching, mesh loading) and the render loop of main in src/main.rs.     *)
(*                                                                         *)
(* Angles and the speed are f32 in the source; here they are fixed-point   *)
(* integers in millionths (1.0 = 1000000).  Times are microseconds.        *)
(***************************************************************************)
EXTENDS Integers, Sequences, FiniteSets, TLC

(* ------------------------------ bounds --------------------------------- *)
\* longest list of model paths on the command line
MaxPaths == 2
\* most iterations of the loop of main that a run is followed for
MaxIter == 2
\* most terminal events pending at a time
MaxEvents == 1
\* largest frame count the export arithmetic is applied to
MaxFrames == 4
\* most events pending at a time in the runs that follow a quit key
MaxPending == 3
\* most iterations of the loop in the runs that follow a quit key
MaxQuitIter == 3

(* --------------------------- fixed-point f32 --------------------------- *)
Unit == 1000000
\* std::f32::consts::PI
PI == 3141593
\* the literal 9.42477 of main.rs:107
PitchLimit == 9424770
\* 1.0 / 0 as f32 is +inf: larger than every other value of the model
Inf == 1000000000

\* main.rs:28
fps_cap == 500
\* main.rs:29, in microseconds
target_frame_time == Unit \div fps_cap

(* ------------------------------ inputs --------------------------------- *)
\* PathBuf::extension(): None, Some(non UTF-8), Some(characters)
NoExt == [kind |-> "none", s |-> <<>>]
BadExt == [kind |-> "nonutf8", s |-> <<>>]
Ext(s) == [kind |-> "str", s |-> s]

\* A model path as the loader sees it: its extension, what the file system
\* and the parser answer for it, and the number of models in the file.
Path(ext, fs, n) == [ext |-> ext, fs |-> fs, nmodels |-> n]

PathKinds ==
    { Path(NoExt, "ok", 1),
      Path(BadExt, "ok", 1),
      Path(Ext(<<"t", "x", "t">>), "ok", 1),
      Path(Ext(<<"O", "B", "J">>), "ok", 2),
      Path(Ext(<<"o", "b", "j">>), "ok", 0),
      Path(Ext(<<"o", "b", "j">>), "parsefail", 0),
      Path(Ext(<<"S", "t", "l">>), "ok", 1),
      Path(Ext(<<"s", "t", "l">>), "openfail", 0),
      Path(Ext(<<"s", "t", "l">>), "parsefail", 0) }

ModelLists == UNION { [1..n -> PathKinds] : n \in 0..MaxPaths }

\* Option<u16> of -h: 0 - 1 stands for None
None == 0 - 1

Interactive == [cmd |-> "Interactive", webify |-> 0, width |-> 0, height |-> None]
Image(j, w, h) == [cmd |-> "Image", webify |-> j, width |-> w, height |-> h]

SubCommands ==
    {Interactive} \cup { Image(j, w, h) : j \in {0, 1, 3}, w \in {2}, h \in {None, 1} }

\* inputs.rs:12-39, the parsed command line
OptsSet ==
    [ models : ModelLists,
      x : {0},
      y : {0, Unit},
      z : {0},
      speed : {Unit, 2 * Unit},
      subcmd : SubCommands ]

(* --------------------------- inputs.rs --------------------------------- *)
\* str::to_lowercase on the characters that occur
LowerChar(c) ==
    CASE c = "O" -> "o"
      [] c = "B" -> "b"
      [] c = "J" -> "j"
      [] c = "S" -> "s"
      [] c = "T" -> "t"
      [] c = "L" -> "l"
      [] c = "X" -> "x"
      [] OTHER -> c

to_lowercase(s) == [i \in 1..Len(s) |-> LowerChar(s[i])]

NoMsg == [path |-> 0, what |-> "", cause |-> ""]

\* inputs.rs:72-74, the closure error: an Err naming the path and the cause
error(i, s, e) ==
    [tag |-> "Err", meshes |-> <<>>, msg |-> [path |-> i, what |-> s, cause |-> e]]

LoadOk(ms) == [tag |-> "Ok", meshes |-> ms, msg |-> NoMsg]

\* inputs.rs:61-67: one mesh per model of the file, in the file's order
to_meshes(i, n) == [k \in 1..n |-> [src |-> i, idx |-> k]]

\* inputs.rs:76-95: the meshes of the path at position i of the list, or Err
LoadPath(i, path) ==
    IF path.ext.kind = "none"
    THEN error(i, "couldn't determine filename extension", "")
    ELSE IF path.ext.kind = "nonutf8"
    THEN error(i, "couldn't parse filename extension", "")
    ELSE LET extstr == to_lowercase(path.ext.s) IN
         IF extstr = <<"o", "b", "j">>
         THEN IF path.fs # "ok"
              THEN error(i, "tobj couldnt load/parse OBJ", path.fs)
              ELSE LoadOk(to_meshes(i, path.nmodels))
         ELSE IF extstr = <<"s", "t", "l">>
         THEN IF path.fs = "openfail"
              THEN error(i, "STL load failed", path.fs)
              ELSE IF path.fs = "parsefail"
              THEN error(i, "stl_io couldnt parse STL", path.fs)
              ELSE LoadOk(<<[src |-> i, idx |-> 1]>>)
         ELSE error(i, "unknown filename extension", "")

\* a loader that skips a path that fails and goes on with the next one
RECURSIVE MatchFromSkipping(_, _, _)
MatchFromSkipping(models, i, queue) ==
    IF i > Len(models)
    THEN [tag |-> "Ok", queue |-> queue, msg |-> NoMsg]
    ELSE MatchFromSkipping(models, i + 1, queue \o LoadPath(i, models[i]).meshes)

\* inputs.rs:69-99: the loop over the paths from position i on, with the
\* queue built so far.  meshes.unwrap() (line 96) panics on the first Err.
RECURSIVE MatchFrom(_, _, _)
MatchFrom(models, i, queue) ==
    IF i > Len(models)
    THEN [tag |-> "Ok", queue |-> queue, msg |-> NoMsg]
    ELSE LET meshes == LoadPath(i, models[i]) IN
         IF meshes.tag = "Err"
         THEN [tag |-> "Panic", queue |-> queue, msg |-> meshes.msg]
         ELSE MatchFrom(models, i + 1, queue \o meshes.meshes)

match_meshes(models) == MatchFrom(models, 1, <<>>)

\* a turntable without the half revolution of line 107
match_turntableNoOffset(o) == <<o.x, o.y, o.z, o.speed>>

\* inputs.rs:101-109
match_turntable(o) == <<o.x, o.y + PI, o.z, o.speed>>

\* inputs.rs:111-123: the body is commented out, the context is left as it is
match_dimensions(o, ctx) == ctx

(* ------------------------------ events --------------------------------- *)
\* crossterm::event::Event as far as main looks at it: a key with its code
\* and modifiers, or any other event (resize, mouse)
Key(code, mods) == [kind |-> "Key", code |-> code, modifiers |-> mods]
OtherEvent == [kind |-> "Resize", code |-> "", modifiers |-> ""]

NoEvent == [kind |-> "None", code |-> "", modifiers |-> ""]

EventKinds ==
    { Key("q", "NONE"), Key("c", "CONTROL"), Key("c", "NONE"), Key("q", "SHIFT"),
      OtherEvent }

\* main.rs:72-75
IsQuit(e) ==
    /\ e.kind = "Key"
    /\ \/ e.code = "q"
       \/ (e.code = "c" /\ e.modifiers = "CONTROL")

\* the sizes the terminal takes
TermSizes == {<<80, 24>>, <<120, 40>>}

\* no quit key waits
NoDue == [iter |-> 0, frames |-> 0, behind |-> 0]

\* what last_time.elapsed() can be at the poll, line 71
ElapsedVals == {0, target_frame_time + 1}
\* what the iteration can have taken at line 99, in milliseconds
DtVals == {1, 250}

(* ------------------------------- state --------------------------------- *)
VARIABLES
    opts,                \* the parsed command line
    pc,                  \* position of main
    result,              \* "running", or how main ended: "Ok", "Err", "panic"
    mesh_queue,          \* main.rs:31
    turntable,           \* main.rs:32, <<yaw, pitch, roll, speed>>
    webify,              \* main.rs:35
    webify_frame_count,  \* main.rs:36
    webify_todo_frames,  \* main.rs:37
    image,               \* context.image, main.rs:45
    size,                \* main.rs:61
    rawMode,             \* the terminal is in raw mode
    cursorHidden,        \* the cursor is hidden
    altScreen,           \* the terminal shows the alternate screen
    events,              \* terminal events waiting to be read
    out,                 \* what println! and flush have written, in order
    trace,               \* every external operation main has called, in order
    frameStart,          \* Len(trace) when the current iteration began
    drawIdx,             \* position of the for loop of line 88
    iter,                \* iterations begun
    quitSeen,            \* the quit key has been recognised (line 73-75 true)
    lastRead,            \* the event event::read returned in this iteration
    termSize,            \* the size of the terminal, the viewport outside main
    quitDue              \* since a quit key waits: the iteration and the frame
                         \* count the run is due to end by

vars ==
    << opts, pc, result, mesh_queue, turntable, webify, webify_frame_count,
       webify_todo_frames, image, size, rawMode, cursorHidden, altScreen,
       events, out, trace, frameStart, drawIdx, iter, quitSeen, lastRead,
       termSize, quitDue >>

envVars == << termSize, quitDue >>
termVars == << rawMode, cursorHidden, altScreen >>
webVars == << webify, webify_frame_count, webify_todo_frames >>
loopVars == << frameStart, drawIdx, iter, quitSeen, lastRead >>

\* one entry of trace: the operation, its arguments, whether it returned Ok
Op(name, arg, ok) == [op |-> name, arg |-> arg, ok |-> ok]

\* a flush that has written its frame
IsFlushed(o) == o.op = "flush" /\ o.ok

Init ==
    /\ opts \in OptsSet
    /\ pc = "start"
    /\ result = "running"
    /\ mesh_queue = <<>>
    /\ turntable = <<0, 0, 0, 0>>
    /\ webify = FALSE
    /\ webify_frame_count = 0
    /\ webify_todo_frames = 0
    /\ image = FALSE
    /\ size = <<0, 0>>
    /\ rawMode = FALSE
    /\ cursorHidden = FALSE
    /\ altScreen = FALSE
    /\ events = <<>>
    /\ out = <<>>
    /\ trace = <<>>
    /\ frameStart = 0
    /\ drawIdx = 0
    /\ iter = 0
    /\ quitSeen = FALSE
    /\ lastRead = NoEvent
    /\ termSize = <<80, 24>>
    /\ quitDue = NoDue

\* main returns (an Err of `?`, the Ok of line 121) or panics
Exit(how) ==
    /\ pc' = "exit"
    /\ result' = how

Call(name, arg, ok) == trace' = Append(trace, Op(name, arg, ok))

(* ------------------------------- main ---------------------------------- *)
\* a main that takes every run for an interactive one
image_modeNever(o) == FALSE

\* main.rs:39-42
image_mode(o) == o.subcmd.cmd = "Image"

\* main.rs:26-57: the options are matched, the context is created.  The
\* block that would read the Image options (lines 48-56) is commented out.
Start ==
    /\ pc = "start"
    /\ LET loaded == match_meshes(opts.models) IN
       IF loaded.tag = "Panic"
       THEN /\ Exit("panic")
            /\ UNCHANGED << mesh_queue, turntable, image >>
       ELSE /\ mesh_queue' = loaded.queue
            /\ turntable' = match_turntable(opts)
            /\ image' = image_mode(opts)
            /\ pc' = IF image_mode(opts) THEN "prologue" ELSE "enable_raw_mode"
            /\ UNCHANGED result
    /\ UNCHANGED << envVars, opts, webVars, size, termVars, events, out, trace, loopVars >>

\* main.rs:58
EnableRawMode ==
    /\ pc = "enable_raw_mode"
    /\ \E ok \in BOOLEAN :
          /\ Call("enable_raw_mode", <<>>, ok)
          /\ IF ok
             THEN /\ rawMode' = TRUE
                  /\ pc' = "hide"
                  /\ UNCHANGED result
             ELSE /\ Exit("Err")
                  /\ UNCHANGED rawMode
    /\ UNCHANGED << envVars, opts, mesh_queue, turntable, webVars, image, size,
                    cursorHidden, altScreen, events, out, loopVars >>

\* main.rs:59.  When the write fails, none, the first or both of the
\* commands have reached the terminal.
HideEnter ==
    /\ pc = "hide"
    /\ \E ok \in BOOLEAN :
          /\ Call("Hide,EnterAlternateScreen", <<>>, ok)
          /\ IF ok
             THEN /\ cursorHidden' = TRUE
                  /\ altScreen' = TRUE
                  /\ pc' = "prologue"
                  /\ UNCHANGED result
             ELSE /\ \E written \in 0..2 :
                        /\ cursorHidden' = (written >= 1)
                        /\ altScreen' = (written = 2)
                  /\ Exit("Err")
    /\ UNCHANGED << envVars, opts, mesh_queue, turntable, webVars, image, size,
                    rawMode, events, out, loopVars >>

\* The lines println! writes in export mode: main.rs:64, 94, 108, 111.  The
\* character of lines 94-111 that opens and closes a frame, a backquote, is
\* written BQ here.
Opener == "let frames = ["
FrameOpen == "BQ"
Terminator == "BQ];"
Separator == "BQ,"

\* main.rs:65, f32: 1.0 / 0 as f32 is +inf
ExportSpeed(n) == IF n = 0 THEN Inf ELSE (2 * PI) \div n

\* main.rs:61-67
Prologue ==
    /\ pc = "prologue"
    /\ size' = <<0, 0>>
    /\ IF webify
       THEN /\ out' = Append(out, Opener)
            /\ turntable' = [turntable EXCEPT ![4] = ExportSpeed(webify_todo_frames)]
       ELSE UNCHANGED << out, turntable >>
    /\ pc' = "loop"
    /\ UNCHANGED << envVars, opts, result, mesh_queue, webVars, image, termVars,
                    events, trace, loopVars >>

\* an iteration that waits for input in image mode too
LoopTopPollAlways ==
    /\ pc = "loop"
    /\ iter < MaxIter
    /\ iter' = iter + 1
    /\ frameStart' = Len(trace)
    /\ pc' = "poll"
    /\ lastRead' = NoEvent
    /\ UNCHANGED << envVars, opts, result, mesh_queue, turntable, webVars, image, size,
                    termVars, events, out, trace, drawIdx, quitSeen >>

\* main.rs:68-70: an iteration begins
LoopTopUpTo(n) ==
    /\ pc = "loop"
    /\ iter < n
    /\ iter' = iter + 1
    /\ frameStart' = Len(trace)
    /\ pc' = IF ~image THEN "poll" ELSE "update"
    /\ lastRead' = NoEvent
    /\ UNCHANGED << envVars, opts, result, mesh_queue, turntable, webVars, image, size,
                    termVars, events, out, trace, drawIdx, quitSeen >>

LoopTop == LoopTopUpTo(MaxIter)

\* the environment: a key is pressed, the terminal is resized, while main
\* waits in (or is about to enter) event::poll
\* With a resize the terminal has its other size.  When a quit key comes to
\* wait behind k events and none waited before, the iteration under way and
\* k more are all the run is due to begin, and k frames all it is due to
\* render from here.
ArriveUpTo(n) ==
    /\ pc = "poll"
    /\ Len(events) < n
    /\ \E e \in EventKinds :
          /\ events' = Append(events, e)
          /\ termSize' = IF e.kind = "Resize"
                         THEN CHOOSE t \in TermSizes : t # termSize
                         ELSE termSize
          /\ quitDue' = IF IsQuit(e) /\ quitDue = NoDue
                        THEN [iter |-> iter + Len(events),
                              frames |-> Len(SelectSeq(trace, IsFlushed)) + Len(events),
                              behind |-> Len(events)]
                        ELSE quitDue
    /\ UNCHANGED << opts, pc, result, mesh_queue, turntable, webVars, image,
                    size, termVars, out, trace, loopVars >>

Arrive == ArriveUpTo(MaxEvents)

\* a poll that times out although an event waits
PollTimesOut ==
    /\ pc = "poll"
    /\ Call("poll", <<>>, TRUE)
    /\ pc' = "update"
    /\ UNCHANGED << envVars, opts, result, mesh_queue, turntable, webVars, image, size,
                    termVars, events, out, loopVars >>

\* main.rs:71: target_frame_time - last_time.elapsed() panics when the
\* difference is negative; poll answers Err, true (an event waits) or false
Poll ==
    /\ pc = "poll"
    /\ \E elapsed \in ElapsedVals :
          IF elapsed > target_frame_time
          THEN /\ Exit("panic")
               /\ UNCHANGED trace
          ELSE \E ok \in BOOLEAN :
                  /\ Call("poll", <<>>, ok)
                  /\ IF ~ok
                     THEN Exit("Err")
                     ELSE /\ pc' = IF events # <<>> THEN "read" ELSE "update"
                          /\ UNCHANGED result
    /\ UNCHANGED << envVars, opts, mesh_queue, turntable, webVars, image, size,
                    termVars, events, out, loopVars >>

\* a loop that notes the quit key and still renders the frame
ReadQuitAfterFrame ==
    /\ pc = "read"
    /\ \E ok \in BOOLEAN :
          /\ Call("read", <<>>, ok)
          /\ IF ~ok
             THEN /\ Exit("Err")
                  /\ UNCHANGED << events, quitSeen, lastRead >>
             ELSE /\ events' = Tail(events)
                  /\ lastRead' = Head(events)
                  /\ quitSeen' = IsQuit(Head(events))
                  /\ pc' = "update"
                  /\ UNCHANGED result
    /\ UNCHANGED << envVars, opts, mesh_queue, turntable, webVars, image, size,
                    termVars, out, frameStart, drawIdx, iter >>

\* main.rs:72-75, 80
Read ==
    /\ pc = "read"
    /\ \E ok \in BOOLEAN :
          /\ Call("read", <<>>, ok)
          /\ IF ~ok
             THEN /\ Exit("Err")
                  /\ UNCHANGED << events, quitSeen, lastRead >>
             ELSE /\ events' = Tail(events)
                  /\ lastRead' = Head(events)
                  /\ quitSeen' = IsQuit(Head(events))
                  /\ pc' = IF IsQuit(Head(events)) THEN "show" ELSE "update"
                  /\ UNCHANGED result
    /\ UNCHANGED << envVars, opts, mesh_queue, turntable, webVars, image, size,
                    termVars, out, frameStart, drawIdx, iter >>

\* main.rs:76
ShowLeave ==
    /\ pc = "show"
    /\ \E ok \in BOOLEAN :
          /\ Call("Show,LeaveAlternateScreen", <<>>, ok)
          /\ IF ok
             THEN /\ cursorHidden' = FALSE
                  /\ altScreen' = FALSE
                  /\ pc' = "disable_raw_mode"
                  /\ UNCHANGED result
             ELSE /\ \E written \in 0..2 :
                        /\ cursorHidden' = (cursorHidden /\ written = 0)
                        /\ altScreen' = (altScreen /\ written < 2)
                  /\ Exit("Err")
    /\ UNCHANGED << envVars, opts, mesh_queue, turntable, webVars, image, size,
                    rawMode, events, out, loopVars >>

\* main.rs:77-78
DisableRawMode ==
    /\ pc = "disable_raw_mode"
    /\ \E ok \in BOOLEAN :
          /\ Call("disable_raw_mode", <<>>, ok)
          /\ IF ok
             THEN /\ rawMode' = FALSE
                  /\ Exit("Ok")
             ELSE /\ Exit("Err")
                  /\ UNCHANGED rawMode
    /\ UNCHANGED << envVars, opts, mesh_queue, turntable, webVars, image, size,
                    cursorHidden, altScreen, events, out, loopVars >>

\* main.rs:84-86.  rot is a function of the turntable and is not kept.
Update ==
    /\ pc = "update"
    /\ \E ok \in BOOLEAN :
          /\ Call("update", size, ok)
          /\ IF ok
             THEN /\ pc' = "clear"
                  /\ UNCHANGED result
             ELSE Exit("Err")
    /\ UNCHANGED << envVars, opts, mesh_queue, turntable, webVars, image, size,
                    termVars, events, out, loopVars >>

\* main.rs:87, and the for loop of line 88 is entered
Clear ==
    /\ pc = "clear"
    /\ Call("clear", <<>>, TRUE)
    /\ drawIdx' = 1
    /\ pc' = IF mesh_queue = <<>> THEN "flush" ELSE "draw_mesh"
    /\ UNCHANGED << envVars, opts, result, mesh_queue, turntable, webVars, image, size,
                    termVars, events, out, frameStart, iter, quitSeen, lastRead >>

\* a for loop that walks the queue from its end
NextMeshBackwards(queue, i) == queue[Len(queue) - i + 1]

\* the mesh the for loop of line 88 hands to draw_mesh at position i
NextMesh(queue, i) == queue[i]

\* main.rs:88-91, one turn of the for loop
DrawMesh ==
    /\ pc = "draw_mesh"
    /\ LET mesh == NextMesh(mesh_queue, drawIdx) IN
       Call("draw_mesh", <<mesh.src, mesh.idx>>, TRUE)
    /\ drawIdx' = drawIdx + 1
    /\ pc' = IF drawIdx = Len(mesh_queue) THEN "flush" ELSE "draw_mesh"
    /\ UNCHANGED << envVars, opts, result, mesh_queue, turntable, webVars, image, size,
                    termVars, events, out, frameStart, iter, quitSeen, lastRead >>

\* main.rs:93-97.  A frame is written as the pitch it was drawn at.
Flush ==
    /\ pc = "flush"
    /\ \E ok \in BOOLEAN :
          /\ Call("flush", <<>>, ok)
          /\ LET opened == IF webify THEN Append(out, FrameOpen) ELSE out IN
             IF ok
             THEN /\ out' = Append(opened, "frame")
                  /\ pc' = "tick"
                  /\ UNCHANGED result
             ELSE /\ out' = opened
                  /\ Exit("Err")
    /\ UNCHANGED << envVars, opts, mesh_queue, turntable, webVars, image, size,
                    termVars, events, loopVars >>

\* a step of the elapsed time alone, the speed forgotten
PitchStepNoSpeed(tt, web, dt) == IF web THEN tt[4] ELSE (Unit * dt) \div 1000

\* main.rs:100-104, the step of the pitch; dt is in milliseconds
PitchStep(tt, web, dt) == IF web THEN tt[4] ELSE (tt[4] * dt) \div 1000

\* main.rs:107, the test of the pitch: turntable.1 > 9.42477
PitchDone(pitch) == pitch > PitchLimit

\* main.rs:107, with the pitch already advanced
ExportDone(pitch, todo, count) == PitchDone(pitch) \/ todo - 1 = count

\* a loop that never ends a still run
StillBreakNever(img, web) == FALSE

\* main.rs:116, the break of a still run
StillBreak(img, web) == img /\ ~web

\* main.rs:99-119
Tick ==
    /\ pc = "tick"
    /\ \E dt \in DtVals :
          LET pitch == turntable[2] + PitchStep(turntable, webify, dt) IN
          /\ Call("tick", <<>>, TRUE)
          /\ turntable' = [turntable EXCEPT ![2] = pitch]
          /\ IF webify
             THEN IF ExportDone(pitch, webify_todo_frames, webify_frame_count)
                  THEN /\ out' = Append(out, Terminator)
                       /\ Exit("Ok")
                       /\ UNCHANGED webify_frame_count
                  ELSE /\ out' = Append(out, Separator)
                       /\ webify_frame_count' = webify_frame_count + 1
                       /\ pc' = "loop"
                       /\ UNCHANGED result
             ELSE /\ UNCHANGED << out, webify_frame_count >>
                  /\ IF StillBreak(image, webify)
                     THEN Exit("Ok")
                     ELSE /\ pc' = "loop"
                          /\ UNCHANGED result
    /\ UNCHANGED << envVars, opts, mesh_queue, webify, webify_todo_frames, image, size,
                    termVars, events, loopVars >>

Next ==
    \/ Start
    \/ EnableRawMode
    \/ HideEnter
    \/ Prologue
    \/ LoopTop
    \/ Arrive
    \/ Poll
    \/ Read
    \/ ShowLeave
    \/ DisableRawMode
    \/ Update
    \/ Clear
    \/ DrawMesh
    \/ Flush
    \/ Tick

Spec == Init /\ [][Next]_vars

(* ---------------------- the runs that follow a quit key ---------------- *)
\* main on one interactive command line, followed for more iterations and
\* with more events pending than in Spec
QuitOptsSet ==
    { o \in OptsSet : /\ o.subcmd = Interactive
                      /\ o.models = << Path(Ext(<<"S", "t", "l">>), "ok", 1) >>
                      /\ o.y = 0
                      /\ o.speed = Unit }

QuitInit ==
    /\ opts \in QuitOptsSet
    /\ pc = "start"
    /\ result = "running"
    /\ mesh_queue = <<>>
    /\ turntable = <<0, 0, 0, 0>>
    /\ webify = FALSE
    /\ webify_frame_count = 0
    /\ webify_todo_frames = 0
    /\ image = FALSE
    /\ size = <<0, 0>>
    /\ rawMode = FALSE
    /\ cursorHidden = FALSE
    /\ altScreen = FALSE
    /\ events = <<>>
    /\ out = <<>>
    /\ trace = <<>>
    /\ frameStart = 0
    /\ drawIdx = 0
    /\ iter = 0
    /\ quitSeen = FALSE
    /\ lastRead = NoEvent
    /\ termSize = <<80, 24>>
    /\ quitDue = NoDue

QuitLoopTop == LoopTopUpTo(MaxQuitIter)

QuitArrive == ArriveUpTo(MaxPending)

QuitNext ==
    \/ Start
    \/ EnableRawMode
    \/ HideEnter
    \/ Prologue
    \/ QuitLoopTop
    \/ QuitArrive
    \/ Poll
    \/ Read
    \/ ShowLeave
    \/ DisableRawMode
    \/ Update
    \/ Clear
    \/ DrawMesh
    \/ Flush
    \/ Tick

QuitSpec == QuitInit /\ [][QuitNext]_vars

(* ------------------- the turntable arithmetic alone -------------------- *)
\* The functions of the turntable, match_turntable (inputs.rs:101-109), the
\* export speed (main.rs:65) and the export branch of the step of the loop
\* (main.rs:100-114), applied to options drawn from these sets.  webify is
\* never true in a run of main, so the export branch is applied here as the
\* function of the turntable and the two counters that it is.
FnOptsSet ==
    [ models : {<<>>},
      x : {0, Unit \div 2},
      y : {0, 2 * Unit, 3 * Unit},
      z : {0, Unit \div 4},
      speed : {Unit, 2 * Unit},
      subcmd : { Image(j, 2, None) : j \in 0..MaxFrames } ]

FnInit ==
    /\ opts \in FnOptsSet
    /\ pc = "fn"
    /\ result = "running"
    /\ mesh_queue = <<>>
    /\ turntable = <<0, 0, 0, 0>>
    /\ webify = FALSE
    /\ webify_frame_count = 0
    /\ webify_todo_frames = 0
    /\ image = FALSE
    /\ size = <<0, 0>>
    /\ rawMode = FALSE
    /\ cursorHidden = FALSE
    /\ altScreen = FALSE
    /\ events = <<>>
    /\ out = <<>>
    /\ trace = <<>>
    /\ frameStart = 0
    /\ drawIdx = 0
    /\ iter = 0
    /\ quitSeen = FALSE
    /\ lastRead = NoEvent
    /\ termSize = <<80, 24>>
    /\ quitDue = NoDue

fnFixed ==
    << opts, result, mesh_queue, webify, image, size, termVars, events, out,
       trace, loopVars, envVars >>

\* inputs.rs:101-109
FnMatchTurntable ==
    /\ pc = "fn"
    /\ turntable' = match_turntable(opts)
    /\ pc' = "fn_speed"
    /\ UNCHANGED << fnFixed, webify_frame_count, webify_todo_frames >>

\* main.rs:65, for the frame count of the options
FnExportSpeed ==
    /\ pc = "fn_speed"
    /\ webify_todo_frames' = opts.subcmd.webify
    /\ turntable' = [turntable EXCEPT ![4] = ExportSpeed(opts.subcmd.webify)]
    /\ pc' = "fn_step"
    /\ UNCHANGED << fnFixed, webify_frame_count >>

\* main.rs:100-114, the export branch
FnExportStep ==
    /\ pc = "fn_step"
    /\ \E dt \in DtVals :
          LET pitch == turntable[2] + PitchStep(turntable, TRUE, dt) IN
          /\ turntable' = [turntable EXCEPT ![2] = pitch]
          /\ IF ExportDone(pitch, webify_todo_frames, webify_frame_count)
             THEN /\ pc' = "fn_done"
                  /\ UNCHANGED webify_frame_count
             ELSE /\ webify_frame_count' = webify_frame_count + 1
                  /\ UNCHANGED pc
    /\ UNCHANGED << fnFixed, webify_todo_frames >>

FnNext ==
    \/ FnMatchTurntable
    \/ FnExportSpeed
    \/ FnExportStep

FnSpec == FnInit /\ [][FnNext]_vars

(* ------------------------- reading the trace --------------------------- *)
\* the operations of the current iteration
FrameOps == IF iter = 0 THEN <<>> ELSE SubSeq(trace, frameStart + 1, Len(trace))

OpNames(ops) == [i \in 1..Len(ops) |-> ops[i].op]

IsRender(o) == o.op \in {"update", "clear", "draw_mesh", "flush", "tick"}
IsDraw(o) == o.op \in {"update", "clear", "draw_mesh", "flush"}
IsUpdate(o) == o.op = "update"
IsTerminal(o) ==
    o.op \in {"enable_raw_mode", "disable_raw_mode", "Hide,EnterAlternateScreen",
              "Show,LeaveAlternateScreen"}
IsInput(o) == o.op \in {"poll", "read"}

\* the rendering operations of the whole run, in order
RenderTrace == SelectSeq(trace, IsRender)
\* frames emitted so far
FlushCount == Len(SelectSeq(trace, IsFlushed))

Abs(n) == IF n < 0 THEN 0 - n ELSE n

\* main is past the prologue of lines 61-66
InLoop == pc \in {"loop", "poll", "read", "show", "disable_raw_mode", "update",
                  "clear", "draw_mesh", "flush", "tick"}

(* ------------------------------- claims -------------------------------- *)
\* the run was started with the Image subcommand
ImageRun == opts.subcmd.cmd = "Image"

\* the frame count of -j, the width of -w, the height of -h or, without -h,
\* the width
FrameCountOpt == opts.subcmd.webify
WidthOpt == opts.subcmd.width
HeightOpt == IF opts.subcmd.height = None THEN opts.subcmd.width ELSE opts.subcmd.height

\* C1: an Image run with -j N, N >= 1, and the default initial pitch that
\* has ended with Ok has emitted exactly N frames, in N iterations (it ends
\* in the iteration of frame index N - 1), and has advanced the pitch by one
\* revolution, N steps of 2*pi/N (up to the rounding of the N steps).
C1_ExportDeterminism ==
    (ImageRun /\ FrameCountOpt >= 1 /\ opts.y = 0 /\ result = "Ok") =>
        /\ FlushCount = FrameCountOpt
        /\ iter = FrameCountOpt
        /\ Abs(turntable[2] - (match_turntable(opts)[2] + 2 * PI)) <= FrameCountOpt

\* C2: an Image run with -j N, N >= 1, is in export mode once the loop is
\* reached: webify is true, the opener has been printed first and the speed
\* is 2*pi/N.
C2_ModeSelection ==
    (ImageRun /\ FrameCountOpt >= 1 /\ InLoop) =>
        /\ webify
        /\ out # <<>> /\ out[1] = Opener
        /\ turntable[4] = ExportSpeed(FrameCountOpt)

\* C3: in an Image run every call of context.update is handed the size of
\* the options: the width of -w and the height of -h, or the width twice.
C3_ViewportOptions ==
    ImageRun =>
        \A i \in 1..Len(trace) :
            IsUpdate(trace[i]) => trace[i].arg = <<WidthOpt, HeightOpt>>

\* the name of the k-th operation of a frame that draws n meshes
FrameOpName(k, n) ==
    IF k = 1 THEN "update"
    ELSE IF k = 2 THEN "clear"
    ELSE IF k <= n + 2 THEN "draw_mesh"
    ELSE IF k = n + 3 THEN "flush"
    ELSE "tick"

\* C4: the rendering operations of a run are, frame after frame, update,
\* clear, draw_mesh of every mesh of the queue in queue order, flush, tick;
\* an operation that returned Err is the last one of the run; and every
\* iteration that has reached the end of the loop body is one whole frame.
C4_FrameOrder ==
    LET r == RenderTrace
        n == Len(mesh_queue)
    IN  /\ \A p \in 1..Len(r) :
              LET k == ((p - 1) % (n + 4)) + 1 IN
              /\ r[p].op = FrameOpName(k, n)
              /\ r[p].op = "draw_mesh" =>
                    r[p].arg = <<mesh_queue[k - 2].src, mesh_queue[k - 2].idx>>
              /\ ~r[p].ok => (p = Len(r) /\ pc = "exit" /\ result = "Err")
        /\ pc = "loop" => Len(r) = iter * (n + 4)

\* two whole frames of a queue of at least two meshes have been rendered
C4_Witness ==
    /\ pc = "loop"
    /\ iter = 2
    /\ Len(mesh_queue) >= 2
    /\ Len(RenderTrace) = 2 * (Len(mesh_queue) + 4)

\* where in the trace the operation called name occurs
Pos(name) == {i \in 1..Len(trace) : trace[i].op = name}

QuitPath == <<"poll", "read", "Show,LeaveAlternateScreen", "disable_raw_mode">>

\* C5: the quit key is recognised only by the read that follows the poll
\* at the start of an iteration; from then on main only shows the cursor
\* and leaves the alternate screen, disables raw mode and exits, with no
\* update, clear, draw_mesh or flush in that iteration; an interactive run
\* ends with Ok only this way, with the terminal restored.
C5_CooperativeCancellation ==
    /\ quitSeen =>
          /\ IsQuit(lastRead)
          /\ pc \in {"show", "disable_raw_mode", "exit"}
          /\ Len(FrameOps) \in 2..4
          /\ OpNames(FrameOps) = SubSeq(QuitPath, 1, Len(FrameOps))
          /\ pc = "show" => Len(FrameOps) = 2
          /\ pc = "disable_raw_mode" => Len(FrameOps) = 3
    /\ IsQuit(lastRead) => quitSeen
    /\ (~ImageRun /\ result = "Ok") =>
          /\ quitSeen
          /\ OpNames(FrameOps) = QuitPath
          /\ \A i \in 1..Len(FrameOps) : FrameOps[i].ok
          /\ ~rawMode /\ ~cursorHidden /\ ~altScreen

\* Control-c was read after a frame had been rendered, and the run ended
C5_Witness ==
    /\ quitSeen
    /\ lastRead = Key("c", "CONTROL")
    /\ result = "Ok"
    /\ iter >= 2
    /\ FlushCount >= 1

\* C6: an Image run never asks for raw mode, the cursor or the alternate
\* screen and its terminal is in none of them; an interactive run asks for
\* raw mode and then for hide/enter once, before the loop, and for
\* show/leave and the end of raw mode at most once, as its last operations.
C6_TerminalOwnership ==
    /\ ImageRun =>
          /\ ~rawMode /\ ~cursorHidden /\ ~altScreen
          /\ \A i \in 1..Len(trace) : ~IsTerminal(trace[i])
    /\ ~ImageRun =>
          /\ Pos("enable_raw_mode") \subseteq {1}
          /\ Pos("Hide,EnterAlternateScreen") \subseteq {2}
          /\ InLoop =>
                /\ Pos("enable_raw_mode") = {1} /\ trace[1].ok
                /\ Pos("Hide,EnterAlternateScreen") = {2} /\ trace[2].ok
          /\ Cardinality(Pos("Show,LeaveAlternateScreen")) <= 1
          /\ Cardinality(Pos("disable_raw_mode")) <= 1
          /\ \A i \in Pos("Show,LeaveAlternateScreen") :
                /\ pc \in {"disable_raw_mode", "exit"}
                /\ i >= Len(trace) - 1
                /\ i < Len(trace) => trace[Len(trace)].op = "disable_raw_mode"
          /\ \A i \in Pos("disable_raw_mode") : i = Len(trace) /\ pc = "exit"

\* an interactive run has entered and left the terminal modes
C6_Witness ==
    /\ ~ImageRun
    /\ pc = "exit"
    /\ Pos("Hide,EnterAlternateScreen") = {2}
    /\ Cardinality(Pos("Show,LeaveAlternateScreen")) = 1
    /\ Cardinality(Pos("disable_raw_mode")) = 1
    /\ ~rawMode

\* the first operation of the run that returned Err
FirstErr == CHOOSE i \in 1..Len(trace) : ~trace[i].ok /\ \A j \in 1..(i - 1) : trace[j].ok

\* C7: an interactive run that has ended with Err after raw mode was
\* enabled has, from the failing operation on, asked to show the cursor and
\* leave the alternate screen and to disable raw mode; and no run ends in
\* raw mode without having asked to disable it.  (An Err of enable_raw_mode
\* itself, the first operation, leaves nothing to restore and is not asked
\* for here.)
C7_RestoreOnAbort ==
    /\ (~ImageRun /\ result = "Err" /\ FirstErr > 1) =>
          /\ \E i \in Pos("Show,LeaveAlternateScreen") : i >= FirstErr
          /\ \E i \in Pos("disable_raw_mode") : i >= FirstErr
    /\ (pc = "exit" /\ rawMode) => Pos("disable_raw_mode") # {}

\* C8: when the loader has returned an empty queue the core does not start:
\* no terminal mode is entered and no update, clear, draw_mesh or flush is
\* executed.
C8_FailFastOnEmptyLoad ==
    (pc # "start" /\ result # "panic" /\ mesh_queue = <<>>) =>
        /\ ~rawMode /\ ~cursorHidden /\ ~altScreen
        /\ \A i \in 1..Len(trace) : ~IsDraw(trace[i])

\* some path of the command line fails to load
SomePathFails ==
    \E i \in 1..Len(opts.models) : LoadPath(i, opts.models[i]).tag = "Err"

\* C9: when some path fails to load, the run ends at the loader: no
\* operation is ever called, the terminal is never touched, nothing is
\* written and no mesh reaches the queue of main.
C9_InputErrorsAbort ==
    SomePathFails =>
        /\ pc \in {"start", "exit"}
        /\ pc = "exit" => result = "panic"
        /\ trace = <<>>
        /\ out = <<>>
        /\ mesh_queue = <<>>
        /\ ~rawMode /\ ~cursorHidden /\ ~altScreen

\* the run has ended at a failing path that follows paths that had loaded
C9_Witness ==
    /\ pc = "exit"
    /\ SomePathFails
    /\ match_meshes(opts.models).queue # <<>>

\* C10: an Image run never polls or reads events; an iteration of an
\* interactive run polls once, first, and reads at most once, right after;
\* it renders only after the poll; and after a poll that timed out, or a
\* read of an event that is no quit key, it goes on to update.
C10_InputWait ==
    /\ ImageRun => \A i \in 1..Len(trace) : ~IsInput(trace[i])
    /\ (~ImageRun /\ InLoop) =>
          LET f == FrameOps IN
          /\ \A i \in 1..Len(f) : (f[i].op = "poll") <=> (i = 1)
          /\ \A i \in 1..Len(f) : (f[i].op = "read") => (i = 2)
          /\ (pc \in {"update", "clear", "draw_mesh", "flush", "tick"}
                \/ (pc = "loop" /\ iter >= 1)) =>
                (Len(f) >= 1 /\ f[1].ok)
          /\ (Len(f) = 1 /\ events = <<>>) => pc = "update"
          /\ (Len(f) = 1 /\ events # <<>>) => pc = "read"
          /\ (Len(f) = 2 /\ f[2].op = "read" /\ ~IsQuit(lastRead)) => pc = "update"
          /\ (pc = "loop" /\ iter >= 1) => f[Len(f)].op = "tick"

\* the first iteration timed out at the poll and rendered, the second one
\* read a key that is no quit key and has rendered its frame
C10_Witness ==
    /\ ~ImageRun
    /\ iter = 2
    /\ pc = "loop"
    /\ trace[3].op = "poll" /\ trace[4].op = "update"
    /\ OpNames(FrameOps)[2] = "read"
    /\ lastRead = Key("c", "NONE")
    /\ FlushCount = 2

\* the pitch at the first frame
StartPitch == opts.y + PI

C13_TurntableInit ==
    pc = "fn_speed" =>
        /\ turntable[1] = opts.x
        /\ turntable[2] = opts.y + PI
        /\ turntable[3] = opts.z
        /\ turntable[4] = opts.speed

\* match_turntable has been applied to four options that all differ
C13_Witness ==
    /\ pc = "fn_speed"
    /\ opts.x # 0 /\ opts.z # 0 /\ opts.y # 0 /\ opts.speed # Unit
    /\ turntable # <<0, 0, 0, 0>>

\* the stream of an export of n frames: the opener, then every frame
\* between its delimiters, a separator after each but the last, the
\* terminator after the last
RECURSIVE ExportStream(_, _)
ExportStream(i, n) ==
    IF i > n THEN <<>>
    ELSE <<FrameOpen, "frame", IF i = n THEN Terminator ELSE Separator>>
             \o ExportStream(i + 1, n)

IsPrefix(a, b) == Len(a) <= Len(b) /\ a = SubSeq(b, 1, Len(a))

IsFrameOrStep(o) == IsFlushed(o) \/ o.op = "tick"

\* C12: what an Image run with -j N, N >= 1, has written is at every moment
\* a prefix of the opener and N delimited frames, and the whole of it when
\* the run has ended with Ok; the frames are in rotation order, one step of
\* the pitch after each frame.
C12_ExportStream ==
    (ImageRun /\ FrameCountOpt >= 1) =>
        LET whole == <<Opener>> \o ExportStream(1, FrameCountOpt)
            steps == SelectSeq(trace, IsFrameOrStep)
        IN  /\ IsPrefix(out, whole)
            /\ result = "Ok" => out = whole
            /\ \A i \in 1..Len(steps) :
                  steps[i].op = (IF i % 2 = 1 THEN "flush" ELSE "tick")

C17_StillOneFrame ==
    (ImageRun /\ ~webify) =>
        /\ iter <= 1
        /\ pc = "loop" => iter = 0
        /\ IsPrefix(out, <<"frame">>)
        /\ Cardinality(Pos("update")) <= 1
        /\ Cardinality(Pos("flush")) <= 1
        /\ Cardinality(Pos("draw_mesh")) <= Len(mesh_queue)
        /\ pc = "exit" => result \in {"Ok", "Err", "panic"}
        /\ result = "Ok" =>
              /\ iter = 1
              /\ out = <<"frame">>
              /\ Cardinality(Pos("update")) = 1
              /\ Cardinality(Pos("clear")) = 1
              /\ Cardinality(Pos("flush")) = 1
              /\ \A k \in 1..Len(mesh_queue) :
                    Cardinality({i \in Pos("draw_mesh") :
                        trace[i].arg = <<mesh_queue[k].src, mesh_queue[k].idx>>}) = 1
              /\ Cardinality(Pos("draw_mesh")) = Len(mesh_queue)
              /\ \A i \in 1..Len(trace) : trace[i].ok

\* a still run of three meshes, with a pitch and a speed of its own, has ended
C17_Witness ==
    /\ ImageRun
    /\ result = "Ok"
    /\ Len(mesh_queue) = 3
    /\ opts.y # 0 /\ opts.speed # Unit
    /\ Cardinality(Pos("draw_mesh")) = 3

\* the first path of the command line that fails to load
FirstFailing ==
    CHOOSE i \in 1..Len(opts.models) :
        /\ LoadPath(i, opts.models[i]).tag = "Err"
        /\ \A j \in 1..(i - 1) : LoadPath(j, opts.models[j]).tag = "Ok"

\* the meshes of the paths from i on, in path order
RECURSIVE AllMeshes(_)
AllMeshes(i) ==
    IF i > Len(opts.models) THEN <<>>
    ELSE LoadPath(i, opts.models[i]).meshes \o AllMeshes(i + 1)

\* C18: once main is past line 31, match_meshes has returned Ok with the
\* meshes of every path in path order, or an Err that names the first
\* failing path and the cause, which main returns; it has not panicked.
C18_LoadErrorsAreValues ==
    pc # "start" =>
        LET r == match_meshes(opts.models) IN
        /\ r.tag \in {"Ok", "Err"}
        /\ result # "panic"
        /\ r.tag = "Ok" => (~SomePathFails /\ r.queue = AllMeshes(1))
        /\ SomePathFails =>
              /\ r.tag = "Err"
              /\ r.msg = LoadPath(FirstFailing, opts.models[FirstFailing]).msg
              /\ pc = "exit" /\ result = "Err"

\* the arguments of the calls of context.update so far, in call order
UpdateArgs ==
    LET ups == SelectSeq(trace, IsUpdate) IN [i \in 1..Len(ups) |-> ups[i].arg]

\* C15: in an interactive run the size that context.update has just been
\* given is the size the terminal has at that moment, and after a resize
\* of the terminal between two frames it differs from the size given the
\* frame before.
C15_ResizeTracking ==
    (~ImageRun /\ pc = "clear") =>
        /\ UpdateArgs[Len(UpdateArgs)] = termSize
        /\ (Len(UpdateArgs) >= 2 /\ lastRead.kind = "Resize") =>
              UpdateArgs[Len(UpdateArgs)] # UpdateArgs[Len(UpdateArgs) - 1]

\* the quit keys of main.rs:73-75, by their codes
QuitKey(e) ==
    \/ e.kind = "Key" /\ e.code = "q"
    \/ e = Key("c", "CONTROL")

ReadsOfFrame == { i \in 1..Len(FrameOps) : FrameOps[i].op = "read" }

====
